---- MODULE Spec2Model ----
(***************************************************************************)
(* The EPUB reading session of DirectEpubReader.tsx: the archive parser    *)
(* (parseEpub), the paginator (splitIntoPages) and the React component's   *)
(* state with its effects, event handlers and the asynchronous initReader. *)
(*                                                                         *)
(* One action is one browser task: an event handler or the continuation of *)
(* an awaited promise, followed by React's re-render and the effects whose *)
(* dependencies changed, in the order the component declares them.         *)
(*                                                                         *)
(* Around the reader: the App (ThemeContext.tsx) with its library, its     *)
(* progress sink and its Google Drive buttons, and GoogleDriveService      *)
(* (googleDrive.ts) with the items it keeps in localStorage.               *)
(***************************************************************************)
EXTENDS Integers, Sequences, FiniteSets, TLC

NULL == "null"

(***************************************************************************)
(* Bounds of the model.                                                    *)
(***************************************************************************)
\* initReader invocations started during one behaviour
MaxOps == 3
\* chapters of a chapter list given to the paginator in SpecPaginate
MaxChapters == 2
\* top-level nodes of all chapters of such a list together
MaxNodes == 3
\* itemrefs of the spine of an archive in SpecParse
MaxSpine == 3
\* ticks of the clock (Date.now()) in SpecApp; a token lives 1..MaxTime ticks
MaxTime == 2
\* authorisations granted by Google during one behaviour of SpecApp
MaxTokens == 2
\* ids crypto.randomUUID() returns during one behaviour of SpecApp
MaxUUIDs == 4
\* pages of a pagination whose positions a reader reports in SpecApp
MaxPages == 2

(***************************************************************************)
(* Markup.  A chapter's content is a forest of DOM nodes; innerHTML and    *)
(* outerHTML are sequences of tokens.  Every element carries the identity  *)
(* of the node it serialises, so that two copies of one block's markup can *)
(* be told from the markup of two blocks.                                  *)
(***************************************************************************)
TextNode(chars) == [tag |-> "#text", id |-> 0, chars |-> chars, kids |-> <<>>]
Elem(tag, id, kids) == [tag |-> tag, id |-> id, chars |-> 0, kids |-> kids]

Tok(k, tag, id, chars) == [k |-> k, tag |-> tag, id |-> id, chars |-> chars]

RECURSIVE Flatten(_)
Flatten(seqs) == IF seqs = <<>> THEN <<>> ELSE Head(seqs) \o Flatten(Tail(seqs))

\* element.outerHTML: the open tag, the serialised children, the close tag
RECURSIVE outerHTML(_)
outerHTML(n) ==
    IF n.tag = "#text" THEN <<Tok("text", "#text", 0, n.chars)>>
    ELSE <<Tok("open", n.tag, n.id, 0)>>
         \o Flatten([i \in 1..Len(n.kids) |-> outerHTML(n.kids[i])])
         \o <<Tok("close", n.tag, n.id, 0)>>

\* element.innerHTML of a node list
innerHTML(nodes) == Flatten([i \in 1..Len(nodes) |-> outerHTML(nodes[i])])

BlockTags == {"p", "div", "h1", "h2", "h3", "h4", "h5", "h6", "blockquote", "pre", "li"}

\* querySelectorAll(selector): every descendant element that matches, in
\* document (pre-)order, nested matches included
RECURSIVE querySelectorAll(_, _)
querySelectorAll(nodes, tags) ==
    Flatten([i \in 1..Len(nodes) |->
        (IF nodes[i].tag \in tags THEN <<nodes[i]>> ELSE <<>>)
        \o querySelectorAll(nodes[i].kids, tags)])

(***************************************************************************)
(* Text settings and the viewport.                                         *)
(***************************************************************************)
InnerWidth == 1000
InnerHeight == 800

FontSizes == {18, 24}
FontFamilies == {"system", "courier"}
\* line heights in tenths (1.6, 2.0)
LineHeights == {16, 20}
Margins == {40, 80}
Themes == {"light", "dark"}

TextSettingsSet ==
    [fontSize : FontSizes, fontFamily : FontFamilies, lineHeight : LineHeights,
     margin : Margins, theme : Themes]

DefaultTextSettings ==
    [fontSize |-> 18, fontFamily |-> "system", lineHeight |-> 16, margin |-> 40,
     theme |-> "light"]

LayoutFields == {"fontSize", "fontFamily", "lineHeight", "margin"}

\* average glyph width of a family, in thousandths of the font size
GlyphWidth(family) == IF family = "courier" THEN 600 ELSE 500

CeilDiv(a, b) == (a + b - 1) \div b

RECURSIVE SumLines(_, _)
SumLines(html, perLine) ==
    IF html = <<>> THEN 0
    ELSE (IF Head(html).k = "text" THEN CeilDiv(Head(html).chars, perLine) ELSE 0)
         + SumLines(Tail(html), perLine)

\* tempContainer.scrollHeight (in tenths of a pixel) once innerHTML is set:
\* the container is as wide as the window less both margins, text wraps at
\* that width and every line is fontSize * lineHeight high.  The theme does
\* not enter.
scrollHeight(html, settings) ==
    LET width   == InnerWidth - settings.margin * 2
        glyph   == (settings.fontSize * GlyphWidth(settings.fontFamily)) \div 1000
        perLine == IF width \div glyph < 1 THEN 1 ELSE width \div glyph
    IN  SumLines(html, perLine) * settings.fontSize * settings.lineHeight

\* Math.floor((window.innerHeight - 240) * 0.92), in tenths of a pixel
pageHeight == (((InnerHeight - 240) * 92) \div 100) * 10

\* currentPageContent.trim() !== '' ; serialised elements are never blank
NotBlank(content) == content # <<>>

Page(n, content, title, pageNumber) ==
    [id |-> <<"page-", n>>, content |-> content, chapterTitle |-> title,
     pageNumber |-> pageNumber]

\* the elements of one chapter: the matching blocks, or the whole tempDiv
ChapterElements(chapter) ==
    LET found == querySelectorAll(chapter.content, BlockTags)
    IN  IF Len(found) = 0 THEN <<Elem("div", 0, chapter.content)>> ELSE found

\* the loop without the overflow test: every element is appended to the
\* page being filled
AccumulateWithoutBreak(elements, chapter, settings, acc) ==
    [acc EXCEPT !.content =
        acc.content \o Flatten([i \in 1..Len(elements) |-> outerHTML(elements[i])])]

\* a loop that closes the page before every element but the first
RECURSIVE AccumulateOnePerPage(_, _, _, _)
AccumulateOnePerPage(elements, chapter, settings, acc) ==
    IF elements = <<>> THEN acc
    ELSE LET elementHtml == outerHTML(Head(elements))
             next == IF NotBlank(acc.content)
                     THEN [pages |-> Append(acc.pages,
                                       Page(Len(acc.pages) + 1, acc.content,
                                            chapter.title, acc.pageNumber)),
                           content |-> elementHtml,
                           pageNumber |-> acc.pageNumber + 1]
                     ELSE [acc EXCEPT !.content = acc.content \o elementHtml]
         IN  AccumulateOnePerPage(Tail(elements), chapter, settings, next)

\* elements.forEach of one chapter; acc = [pages, content, pageNumber]
RECURSIVE AccumulateElements(_, _, _, _)
AccumulateElements(elements, chapter, settings, acc) ==
    IF elements = <<>> THEN acc
    ELSE LET elementHtml == outerHTML(Head(elements))
             over == scrollHeight(acc.content \o elementHtml, settings) > pageHeight
                     /\ NotBlank(acc.content)
             next == IF over
                     THEN [pages |-> Append(acc.pages,
                                       Page(Len(acc.pages) + 1, acc.content,
                                            chapter.title, acc.pageNumber)),
                           content |-> elementHtml,
                           pageNumber |-> acc.pageNumber + 1]
                     ELSE [acc EXCEPT !.content = acc.content \o elementHtml]
         IN  AccumulateElements(Tail(elements), chapter, settings, next)

\* chapters.forEach
RECURSIVE SplitChapters(_, _, _)
SplitChapters(chapters, settings, pagesSoFar) ==
    IF chapters = <<>> THEN pagesSoFar
    ELSE LET chapter == Head(chapters)
             acc == AccumulateElements(ChapterElements(chapter), chapter, settings,
                        [pages |-> pagesSoFar, content |-> <<>>, pageNumber |-> 1])
             out == IF NotBlank(acc.content)
                    THEN Append(acc.pages,
                                Page(Len(acc.pages) + 1, acc.content, chapter.title,
                                     acc.pageNumber))
                    ELSE acc.pages
         IN  SplitChapters(Tail(chapters), settings, out)

splitIntoPages(chapters, settings) == SplitChapters(chapters, settings, <<>>)

(***************************************************************************)
(* The archive and parseEpub.                                              *)
(***************************************************************************)
NonContentTags == {"script", "style", "meta", "link"}

\* doc.querySelectorAll('script, style, meta, link').forEach(el => el.remove())
RECURSIVE RemoveNonContent(_)
RemoveNonContent(nodes) ==
    Flatten([i \in 1..Len(nodes) |->
        IF nodes[i].tag \in NonContentTags THEN <<>>
        ELSE <<[nodes[i] EXCEPT !.kids = RemoveNonContent(nodes[i].kids)]>>])

ParseFailure(inner) == [ok |-> FALSE, message |-> <<"Failed to parse EPUB: ", inner>>]

\* manifestItems.find(item => item.getAttribute('id') === idref): the items
\* that match, of which the code takes the first
FindManifestItem(manifest, idref) == SelectSeq(manifest, LAMBDA item : item.id = idref)

\* the body of the spine loop for one itemref: the chapters with the entry's
\* chapter appended, or unchanged when the entry does not resolve
SpineEntry(archive, idref, epubChapters) ==
    LET found == FindManifestItem(archive.manifest, idref)
    IN  IF found = <<>> THEN epubChapters
        ELSE IF Head(found).href = NULL THEN epubChapters
        ELSE IF Head(found).href \notin DOMAIN archive.files THEN epubChapters
        ELSE LET file == archive.files[Head(found).href]
             IN  IF ~file.readable THEN epubChapters
                 ELSE Append(epubChapters,
                        [id |-> idref,
                         title |-> IF file.title # NULL THEN <<file.title, 0>>
                                   ELSE <<"Chapter ", Len(epubChapters) + 1>>,
                         content |-> RemoveNonContent(file.body),
                         href |-> <<archive.basePath, Head(found).href>>])

\* a loop that ends at the first itemref that gives no chapter
RECURSIVE SpineLoopStopsAtGap(_, _, _)
SpineLoopStopsAtGap(archive, spine, epubChapters) ==
    IF spine = <<>> THEN epubChapters
    ELSE LET next == SpineEntry(archive, Head(spine), epubChapters)
         IN  IF next = epubChapters THEN epubChapters
             ELSE SpineLoopStopsAtGap(archive, Tail(spine), next)

RECURSIVE SpineLoop(_, _, _)
SpineLoop(archive, spine, epubChapters) ==
    IF spine = <<>> THEN epubChapters
    ELSE SpineLoop(archive, Tail(spine), SpineEntry(archive, Head(spine), epubChapters))

\* parseEpub(url): response is what fetch(url) answered (ok or not), archive
\* the bytes behind the url
parseEpub(responseOk, archive, fileName) ==
    IF ~responseOk THEN ParseFailure("Failed to fetch EPUB: 404 Not Found")
    ELSE IF ~archive.zipOk THEN ParseFailure("Corrupted zip: can't find end of central directory")
    ELSE IF ~archive.container THEN ParseFailure("Invalid EPUB: container.xml not found")
    ELSE IF archive.fullPath = NULL THEN ParseFailure("Invalid EPUB: OPF file path not found")
    ELSE IF ~archive.opf THEN ParseFailure("Invalid EPUB: OPF file not found")
    ELSE LET epubChapters == SpineLoop(archive, archive.spine, <<>>)
         IN  IF Len(epubChapters) = 0
             THEN ParseFailure("No readable chapters found in EPUB")
             ELSE [ok |-> TRUE,
                   chapters |-> epubChapters,
                   metadata |-> [title |-> IF archive.title # NULL THEN archive.title
                                           ELSE fileName,
                                 author |-> IF archive.author # NULL THEN archive.author
                                            ELSE "Unknown Author",
                                 language |-> "en"]]

ParseTimeoutMessage == <<"EPUB parsing timeout after 30 seconds">>

(***************************************************************************)
(* The archives of the library's books.                                    *)
(***************************************************************************)
P(id, chars) == Elem("p", id, <<TextNode(chars)>>)

ChapterFile(title, body) == [readable |-> TRUE, title |-> title, body |-> body]

Archive(manifest, spine, files) ==
    [zipOk |-> TRUE, container |-> TRUE, fullPath |-> "OEBPS/content.opf",
     basePath |-> "OEBPS/", opf |-> TRUE, title |-> "A Book", author |-> NULL,
     manifest |-> manifest, spine |-> spine, files |-> files]

\* two chapters of plain paragraphs
ArchivePlain ==
    Archive(<<[id |-> "c1", href |-> "c1.xhtml"], [id |-> "c2", href |-> "c2.xhtml"]>>,
            <<"c1", "c2">>,
            [h \in {"c1.xhtml", "c2.xhtml"} |->
                IF h = "c1.xhtml"
                THEN ChapterFile("One", <<P(1, 816), P(2, 900), P(3, 816), P(4, 900)>>)
                ELSE ChapterFile(NULL, <<Elem("script", 9, <<>>), P(5, 900), P(6, 2000)>>)])

\* a chapter whose paragraph sits inside a div, and a spine entry without file
ArchiveNested ==
    Archive(<<[id |-> "c1", href |-> "c1.xhtml"], [id |-> "c2", href |-> "gone.xhtml"],
              [id |-> "c3", href |-> NULL]>>,
            <<"c1", "c2", "c3", "c4">>,
            [h \in {"c1.xhtml"} |->
                ChapterFile("Nested", <<Elem("div", 1, <<P(2, 816)>>), P(3, 900),
                                        TextNode(300)>>)])

\* the ways a download can fail parseEpub: the fetch answers not-OK, or the
\* bytes are broken in one place
Defects == {"fetch", "zip", "container", "fullPath", "opf", "spine"}

Broken(archive, defect) ==
    CASE defect \in {"none", "fetch"} -> archive
      [] defect = "zip" -> [archive EXCEPT !.zipOk = FALSE]
      [] defect = "container" -> [archive EXCEPT !.container = FALSE]
      [] defect = "fullPath" -> [archive EXCEPT !.fullPath = NULL]
      [] defect = "opf" -> [archive EXCEPT !.opf = FALSE]
      [] defect = "spine" -> [archive EXCEPT !.spine = <<"c7">>]

BookIds == {"plain", "nested"}

\* the archive stored for a book
ArchiveOf(id) == IF id = "plain" THEN ArchivePlain ELSE ArchiveNested

(***************************************************************************)
(* The book records the reader can be opened on.  progress is a fraction   *)
(* <<numerator, denominator>>.                                             *)
(***************************************************************************)
Book(id, currentPage, progress) ==
    [id |-> id, fileName |-> id, googleDriveId |-> id,
     currentPage |-> currentPage, progress |-> progress,
     currentCfi |-> <<"page-", currentPage>>]

Library ==
    {Book("plain", 5, <<1, 2>>), Book("nested", 1, <<1, 2>>)}

\* the library state of the App that holds these records
StoredLibrary ==
    <<Book("plain", 5, <<1, 2>>), Book("nested", 1, <<1, 2>>)>>

\* parseEpub and splitIntoPages are functions of the download and of the
\* settings: their results for the books of the library, by book id (which
\* is the file name too), defect of the download ("none": as stored) and
\* settings
ParsedDownload ==
    [id \in BookIds |->
        [defect \in Defects \cup {"none"} |->
            parseEpub(defect # "fetch", Broken(ArchiveOf(id), defect), id)]]

PagesOfBook ==
    [id \in BookIds |->
        [settings \in TextSettingsSet |->
            splitIntoPages(ParsedDownload[id]["none"].chapters, settings)]]

\* what getBookUrl can reject with
UrlErrors ==
    {<<"Failed to get book URL: ", "Failed to download file">>}

(***************************************************************************)
(* The component.                                                          *)
(***************************************************************************)
VARIABLES
    mountedRef,         \* mountedRef.current
    book,               \* the book prop of the last render
    initializationRef,  \* initializationRef.current: NULL or a book id
    isLoading,
    error,              \* NoError (null) or the parts of the message
    pages,
    currentPageIndex,
    metadata,           \* None (null) or <<metadata>>
    textSettings,
    inflight,           \* the initReader invocations suspended at an await
    nextSeq,            \* number of the next initReader invocation
    doublePageView,
    saveProgressTimeoutRef, \* None, or <<the call the pending timer will make>>
    progressSink,       \* None, or <<the last call made to onProgressUpdate>>
    chapters,           \* SpecPaginate: the chapter list given to splitIntoPages
    download,           \* SpecParse: the archive given to parseEpub
    onProgressUpdate,   \* what a call of the progress sink does: "returns" or "throws"
    tempContainers,     \* measurement containers attached to document.body
    library,            \* App: the book records, in display order
    currentBookId,      \* App: NULL, or the id of the book the reader is open on
    isGoogleDriveAuthenticated, \* App
    appError,           \* App: its error state, NULL or a message
    localStorage,       \* key -> None (no item) or <<value>>
    googleDriveService, \* the fields accessToken, tokenExpiry, booksFolder
    googleDrive,        \* the remote side: files of the books folder, tokens
                        \* issued, revoke requests received
    now,                \* Date.now()
    randomUUID          \* number of ids crypto.randomUUID() has returned

vars == <<mountedRef, book, initializationRef, isLoading, error, pages,
          currentPageIndex, metadata, textSettings, inflight, nextSeq,
          doublePageView, saveProgressTimeoutRef, progressSink, chapters,
          download, onProgressUpdate, tempContainers, library, currentBookId,
          isGoogleDriveAuthenticated, appError, localStorage, googleDriveService,
          googleDrive, now, randomUUID>>

\* the state outside the reader that no handler of the reader touches
driveVars == <<isGoogleDriveAuthenticated, appError, googleDriveService,
               googleDrive, now, randomUUID>>

NoError == <<>>
None == <<>>
Some(x) == <<x>>

\* viewerRef.current is the viewer div, which the error screen does not render
viewerRef == error = NoError

(***************************************************************************)
(* localStorage, and the sink the App gives the reader.                    *)
(***************************************************************************)
BOOKS_KEY == "reader-books"
LAST_BOOK_KEY == "reader-lastBookId"
TOKEN_KEY == "googleDriveAccessToken"
EXPIRY_KEY == "googleDriveTokenExpiry"
FOLDER_KEY == "googleDriveBooksFolder"

StorageKeys == {BOOKS_KEY, LAST_BOOK_KEY, TOKEN_KEY, EXPIRY_KEY, FOLDER_KEY}

setItem(storage, key, value) == [storage EXCEPT ![key] = Some(value)]
removeItem(storage, key) == [storage EXCEPT ![key] = None]

\* the access token the k-th authorisation hands out
Token(k) == "token-" \o ToString(k)

\* the id of the books folder in Drive
BooksFolderId == "folder-books"

\* App.handleProgressUpdate, the function given to setLibrary: the record
\* of the book gets the three values of the call
handleProgressUpdate(prev, bookId, progress, currentCfi, currentPage) ==
    [k \in 1..Len(prev) |->
        IF prev[k].id = bookId
        THEN [prev[k] EXCEPT !.progress = progress,
                             !.currentPage = currentPage,
                             !.currentCfi = currentCfi]
        ELSE prev[k]]

\* try { onProgressUpdate(book.id, progress, `page-${n}`, n) } catch {...},
\* if `called`: a sink that returns is App.handleProgressUpdate, which sets
\* the library and writes it to localStorage
CallProgressSink(called, call) ==
    LET updatedLibrary ==
            handleProgressUpdate(library, call.bookId, call.progress,
                                 call.currentCfi, call.currentPage)
    IN  /\ progressSink' = IF called THEN Some(call) ELSE progressSink
        /\ IF called /\ onProgressUpdate = "returns"
           THEN /\ library' = updatedLibrary
                /\ localStorage' = setItem(localStorage, BOOKS_KEY, updatedLibrary)
           ELSE UNCHANGED <<library, localStorage>>

(***************************************************************************)
(* GoogleDriveService.  Its methods are operators from the fields of the   *)
(* service and localStorage to their new values.                           *)
(***************************************************************************)
\* clearStoredAuth
clearStoredAuth(storage) ==
    [service |-> [accessToken |-> NULL, tokenExpiry |-> None, booksFolder |-> NULL],
     storage |-> removeItem(removeItem(removeItem(storage, TOKEN_KEY), EXPIRY_KEY),
                            FOLDER_KEY)]

\* loadStoredAuth, called by the constructor on the fields' initial values
loadStoredAuth(storage) ==
    IF storage[TOKEN_KEY] # None /\ storage[EXPIRY_KEY] # None
    THEN IF now < storage[EXPIRY_KEY][1]
         THEN [service |-> [accessToken |-> storage[TOKEN_KEY][1],
                            tokenExpiry |-> storage[EXPIRY_KEY],
                            booksFolder |-> NULL],
               storage |-> storage]
         ELSE clearStoredAuth(storage)
    ELSE [service |-> [accessToken |-> NULL, tokenExpiry |-> None,
                       booksFolder |-> NULL],
          storage |-> storage]

\* saveAuth(token, expiresIn), in ticks
saveAuth(service, storage, token, expiresIn) ==
    [service |-> [service EXCEPT !.accessToken = token,
                                 !.tokenExpiry = Some(now + expiresIn)],
     storage |-> setItem(setItem(storage, TOKEN_KEY, token), EXPIRY_KEY,
                         now + expiresIn)]

isAuthenticated(service) ==
    /\ service.accessToken # NULL
    /\ service.tokenExpiry # None
    /\ now < service.tokenExpiry[1]

\* disconnect(): clearStoredAuth() first, then the revoke request if
\* this.accessToken is set; drive is the remote side
disconnect(storage, drive) ==
    LET cleared == clearStoredAuth(storage)
    IN  [service |-> cleared.service,
         storage |-> cleared.storage,
         drive |-> IF cleared.service.accessToken # NULL
                   THEN [drive EXCEPT !.revoked = @ \cup {cleared.service.accessToken}]
                   ELSE drive]

\* the book files of the books folder, as the files API lists them
DriveBooks(files) ==
    LET listed == SelectSeq(<<"plain", "nested">>, LAMBDA f : f \in files)
    IN  [k \in 1..Len(listed) |-> [id |-> listed[k], fileName |-> listed[k]]]

\* listBooks(): findOrCreateBooksFolder, then the query for the book files.
\* makeApiCall throws when isAuthenticated() is false; Drive accepts a token
\* until the time the client takes for its expiry.
listBooks(service, storage) ==
    IF isAuthenticated(service)
    THEN [ok |-> TRUE,
          books |-> DriveBooks(googleDrive.files),
          service |-> [service EXCEPT !.booksFolder = BooksFolderId],
          storage |-> IF service.booksFolder # NULL
                      THEN storage
                      ELSE setItem(storage, FOLDER_KEY, BooksFolderId)]
    ELSE [ok |-> FALSE,
          message |-> IF service.booksFolder # NULL
                      THEN "Not authenticated with Google Drive"
                      ELSE "Failed to access books folder in Google Drive",
          service |-> service,
          storage |-> IF service.booksFolder # NULL
                      THEN storage
                      ELSE removeItem(storage, FOLDER_KEY)]

\* The App with Drive connected and the library loaded, showing the reader
\* on book b.
AppOpenOn(books, b) ==
    /\ library = books
    /\ currentBookId = b.id
    /\ isGoogleDriveAuthenticated = TRUE
    /\ appError = NULL
    /\ now = 0
    /\ randomUUID = 0
    /\ googleDrive = [files |-> {books[k].googleDriveId : k \in 1..Len(books)},
                      issued |-> 1,
                      revoked |-> {}]
    /\ googleDriveService = [accessToken |-> Token(1),
                             tokenExpiry |-> Some(1),
                             booksFolder |-> BooksFolderId]
    /\ localStorage = [key \in StorageKeys |->
                          CASE key = BOOKS_KEY -> Some(books)
                            [] key = LAST_BOOK_KEY -> Some(b.id)
                            [] key = TOKEN_KEY -> Some(Token(1))
                            [] key = EXPIRY_KEY -> Some(1)
                            [] key = FOLDER_KEY -> Some(BooksFolderId)]

Min(a, b) == IF a < b THEN a ELSE b
Max(a, b) == IF a > b THEN a ELSE b

\* the saved page number and the progress taken without clamping
InitialPageIndexUnclamped(b, pageCount) ==
    IF b.currentPage > 1
    THEN b.currentPage - 1
    ELSE IF b.progress[1] > 0
    THEN (b.progress[1] * pageCount) \div b.progress[2]
    ELSE 0

\* the saved page number taken as the index
InitialPageIndexFromPageNumber(b, pageCount) ==
    IF b.currentPage > 1
    THEN Max(0, Min(b.currentPage, pageCount - 1))
    ELSE IF b.progress[1] > 0
    THEN Max(0, Min((b.progress[1] * pageCount) \div b.progress[2], pageCount - 1))
    ELSE 0

\* initReader: the index to start from, out of the book record
InitialPageIndex(b, pageCount) ==
    IF b.currentPage > 1
    THEN Max(0, Min(b.currentPage - 1, pageCount - 1))
    ELSE IF b.progress[1] > 0
    THEN Max(0, Min((b.progress[1] * pageCount) \div b.progress[2], pageCount - 1))
    ELSE 0

\* an initReader invocation up to its first await: what its closure holds
\* (book, textSettings) and where it waits
NewOp(b, settings) ==
    [seq |-> nextSeq, book |-> b, settings |-> settings, phase |-> "url"]

\* the 30 s timer exists from the Promise.race on
TimerArmed(o) == o.phase = "parse"

\* Math.max(0, Math.min(1, pageIndex / totalPages)) as a fraction
ClampedFraction(pageIndex, totalPages) ==
    IF pageIndex < 0 THEN <<0, 1>>
    ELSE IF pageIndex > totalPages THEN <<1, 1>>
    ELSE <<pageIndex, totalPages>>

\* a call that carries the 0-based index as page number
ProgressCallZeroBased(b, pageIndex, totalPages) ==
    [bookId |-> b.id,
     progress |-> ClampedFraction(pageIndex, totalPages),
     currentCfi |-> <<"page-", pageIndex>>,
     currentPage |-> pageIndex,
     totalPages |-> totalPages]

\* saveProgress / saveProgressImmediately: the call to onProgressUpdate they
\* build from (pageIndex, totalPages); totalPages stays in the closure
ProgressCall(b, pageIndex, totalPages) ==
    [bookId |-> b.id,
     progress |-> ClampedFraction(pageIndex, totalPages),
     currentCfi |-> <<"page-", pageIndex + 1>>,
     currentPage |-> pageIndex + 1,
     totalPages |-> totalPages]

\* a save function without try/catch: the exception of a throwing sink
\* leaves it
SaveRethrows == onProgressUpdate = "throws"

\* try { onProgressUpdate(...) } catch (error) { console.error(...) } in
\* saveProgressImmediately and in the timer callback of saveProgress: whether
\* an exception of the sink leaves the save function.  It never does.
SaveThrows == FALSE

\* the effects without the track-progress effect: the cleanup saves and
\* clears the timer, and no save is scheduled
AfterRenderWithoutTrack ==
    LET cleanup == \/ currentPageIndex' # currentPageIndex
                   \/ Len(pages') # Len(pages)
                   \/ book'.id # book.id
    IN  /\ CallProgressSink(cleanup /\ Len(pages) > 0 /\ currentPageIndex >= 0,
                            ProgressCall(book, currentPageIndex, Len(pages)))
        /\ saveProgressTimeoutRef' =
              IF cleanup THEN None ELSE saveProgressTimeoutRef

\* The effects of the render that follows a state change, cleanups first.
\* The unmount-save effect (deps currentPageIndex, pages.length,
\* saveProgressImmediately) is cleaned up with the values of the previous
\* render: it saves immediately and clears the pending timer.  Then the
\* track-progress effect (deps currentPageIndex, pages.length, isLoading,
\* saveProgress) schedules the debounced save.
AfterRender ==
    LET idChanged  == book'.id # book.id
        posChanged == \/ currentPageIndex' # currentPageIndex
                      \/ Len(pages') # Len(pages)
        cleanup    == posChanged \/ idChanged
        track      == cleanup \/ isLoading' # isLoading
        \* the render of a new book prop still holds the old isLoading: the
        \* setIsLoading(true) of its init effect shows in the render after,
        \* whose track-progress effect then does nothing
        loading    == IF idChanged THEN isLoading ELSE isLoading'
        \* an exception that left saveProgressImmediately would end the
        \* cleanup before its clearTimeout
        cleared    == cleanup /\ ~(Len(pages) > 0 /\ currentPageIndex >= 0 /\ SaveThrows)
    IN  /\ CallProgressSink(cleanup /\ Len(pages) > 0 /\ currentPageIndex >= 0,
                            ProgressCall(book, currentPageIndex, Len(pages)))
        /\ saveProgressTimeoutRef' =
              IF track /\ Len(pages') > 0 /\ ~loading
              THEN Some(ProgressCall(book', currentPageIndex', Len(pages')))
              ELSE IF cleared THEN None
              ELSE saveProgressTimeoutRef

InitSession ==
    /\ mountedRef = TRUE
    /\ book \in Library
    /\ textSettings = DefaultTextSettings
    /\ initializationRef = book.id
    /\ isLoading = TRUE
    /\ error = NoError
    /\ pages = <<>>
    /\ currentPageIndex = 0
    /\ metadata = None
    /\ inflight = {[seq |-> 1, book |-> book, settings |-> textSettings,
                    phase |-> "url"]}
    /\ nextSeq = 2
    /\ doublePageView = FALSE
    /\ saveProgressTimeoutRef = None
    /\ progressSink = None
    /\ chapters = <<>>
    /\ download = None
    /\ tempContainers = 0
    /\ AppOpenOn(StoredLibrary, book)

\* the reader mounted with a progress sink that works
Init ==
    /\ InitSession
    /\ onProgressUpdate = "returns"

\* the reader mounted with a progress sink that works, or with one that
\* throws at every call
InitSink ==
    /\ InitSession
    /\ onProgressUpdate \in {"returns", "throws"}

\* initReader from its start to `await getBookUrl()`
StartInitReader(b, settings) ==
    /\ nextSeq <= MaxOps
    /\ isLoading' = TRUE
    /\ error' = NoError
    /\ inflight' = inflight \cup {NewOp(b, settings)}
    /\ nextSeq' = nextSeq + 1

\* The values the controls of the settings panel are moved to.  The font
\* size slider and the theme buttons are exercised; the other three controls
\* stay where they are.
PanelValues(field) ==
    CASE field = "fontSize" -> FontSizes
      [] field = "fontFamily" -> {DefaultTextSettings.fontFamily}
      [] field = "lineHeight" -> {DefaultTextSettings.lineHeight}
      [] field = "margin" -> {DefaultTextSettings.margin}
      [] field = "theme" -> Themes

\* A control of the settings panel: setTextSettings(prev => ({...prev, field})).
\* The init effect runs first (textSettings is a new object), then the
\* re-split effect if one of its four values changed.
ChangeTextSettings(field, value) ==
    LET new     == [textSettings EXCEPT ![field] = value]
        starts  == viewerRef /\ initializationRef # book.id
        resplit == /\ field \in LayoutFields
                   /\ Len(pages) > 0
                   /\ metadata # None
    IN  /\ mountedRef
        /\ error = NoError
        /\ field \in LayoutFields => value # textSettings[field]
        /\ textSettings' = new
        /\ IF starts
           THEN StartInitReader(book, new)
           ELSE UNCHANGED <<isLoading, error, inflight, nextSeq>>
        /\ initializationRef' = IF resplit THEN NULL
                                ELSE IF starts THEN book.id
                                ELSE initializationRef
        /\ UNCHANGED <<mountedRef, book, pages, currentPageIndex, metadata, chapters,
                       download, onProgressUpdate, tempContainers, doublePageView,
                       driveVars, currentBookId>>
        /\ AfterRender

\* a catch block that logs the failure and ends the loading screen, without
\* setError
CatchWithoutSetError(message) ==
    IF ~mountedRef
    THEN UNCHANGED <<error, isLoading, initializationRef>>
    ELSE /\ error' = error
         /\ isLoading' = FALSE
         /\ initializationRef' = NULL

\* a catch block that does not look at mountedRef
CatchWithoutMountedCheck(message) ==
    /\ error' = message
    /\ isLoading' = FALSE
    /\ initializationRef' = NULL

\* the catch block of initReader
Catch(message) ==
    IF ~mountedRef
    THEN UNCHANGED <<error, isLoading, initializationRef>>
    ELSE /\ error' = message
         /\ isLoading' = FALSE
         /\ initializationRef' = NULL

\* getBookUrl() resolved: initReader goes on to the Promise.race, unless the
\* component unmounted or the ref no longer holds the book of its closure
UrlResolved(o) ==
    /\ o \in inflight
    /\ o.phase = "url"
    /\ isAuthenticated(googleDriveService)
    /\ IF ~mountedRef \/ initializationRef # o.book.id
       THEN inflight' = inflight \ {o}
       ELSE inflight' = (inflight \ {o}) \cup {[o EXCEPT !.phase = "parse"]}
    /\ UNCHANGED <<mountedRef, book, initializationRef, isLoading, error, pages,
                   currentPageIndex, metadata, textSettings, nextSeq, chapters,
                   download, onProgressUpdate, tempContainers, doublePageView,
                   driveVars, currentBookId>>
    /\ AfterRender

\* getBookUrl() rejected
UrlRejected(o, message) ==
    /\ o \in inflight
    /\ o.phase = "url"
    /\ inflight' = inflight \ {o}
    /\ Catch(message)
    /\ UNCHANGED <<mountedRef, book, pages, currentPageIndex, metadata, textSettings,
                   nextSeq, chapters, download, onProgressUpdate, tempContainers,
                   doublePageView, driveVars, currentBookId>>
    /\ AfterRender

\* parseEpub resolved before the timer: the pages and the index are committed
ParseResolved(o) ==
    LET parsed    == ParsedDownload[o.book.fileName]["none"]
        epubPages == PagesOfBook[o.book.fileName][o.settings]
    IN  /\ o \in inflight
        /\ o.phase = "parse"
        /\ parsed.ok
        /\ inflight' = inflight \ {o}
        /\ IF ~mountedRef
           THEN UNCHANGED <<pages, metadata, currentPageIndex, isLoading>>
           ELSE /\ pages' = epubPages
                /\ metadata' = Some(parsed.metadata)
                /\ currentPageIndex' = InitialPageIndex(o.book, Len(epubPages))
                /\ isLoading' = FALSE
        /\ UNCHANGED <<mountedRef, book, initializationRef, error, textSettings,
                       nextSeq, chapters, download, onProgressUpdate, tempContainers,
                       doublePageView, driveVars, currentBookId>>
        /\ AfterRender

\* parseEpub rejected before the timer: the download has the defect
ParseRejected(o, defect) ==
    LET parsed == ParsedDownload[o.book.fileName][defect]
    IN  /\ o \in inflight
        /\ o.phase = "parse"
        /\ ~parsed.ok
        /\ inflight' = inflight \ {o}
        /\ Catch(parsed.message)
        /\ UNCHANGED <<mountedRef, book, pages, currentPageIndex, metadata,
                       textSettings, nextSeq, chapters, download, onProgressUpdate,
                       tempContainers, doublePageView, driveVars, currentBookId>>
        /\ AfterRender

\* the 30 s timer of the Promise.race fired before parseEpub settled
ParseTimedOut(o) ==
    /\ o \in inflight
    /\ TimerArmed(o)
    /\ inflight' = inflight \ {o}
    /\ Catch(ParseTimeoutMessage)
    /\ UNCHANGED <<mountedRef, book, pages, currentPageIndex, metadata, textSettings,
                   nextSeq, chapters, download, onProgressUpdate, tempContainers,
                   doublePageView, driveVars, currentBookId>>
    /\ AfterRender

\* the Retry button of the error screen
Retry ==
    /\ mountedRef
    /\ error # NoError
    /\ error' = NoError
    /\ isLoading' = TRUE
    /\ initializationRef' = NULL
    /\ UNCHANGED <<mountedRef, book, pages, currentPageIndex, metadata, textSettings,
                   inflight, nextSeq, chapters, download, onProgressUpdate,
                   tempContainers, doublePageView, driveVars, currentBookId>>
    /\ AfterRender

\* goToNext with the step of the single-page view in both views
goToNextSingleStep ==
    /\ mountedRef
    /\ IF currentPageIndex + 1 <= Len(pages) - 1
       THEN currentPageIndex' = Min(currentPageIndex + 1, Len(pages) - 1)
       ELSE currentPageIndex' = currentPageIndex
    /\ UNCHANGED <<mountedRef, book, initializationRef, isLoading, error, pages,
                   metadata, textSettings, inflight, nextSeq, chapters, download,
                   onProgressUpdate, tempContainers, doublePageView, driveVars,
                   currentBookId>>
    /\ AfterRender

\* goToNext (button or ArrowRight/PageDown)
goToNext ==
    LET increment == IF doublePageView THEN 2 ELSE 1
    IN  /\ mountedRef
        /\ IF currentPageIndex + increment <= Len(pages) - 1
           THEN currentPageIndex' = Min(currentPageIndex + increment, Len(pages) - 1)
           ELSE currentPageIndex' = currentPageIndex
        /\ UNCHANGED <<mountedRef, book, initializationRef, isLoading, error, pages,
                       metadata, textSettings, inflight, nextSeq, chapters, download,
                       onProgressUpdate, tempContainers, doublePageView, driveVars,
                       currentBookId>>
        /\ AfterRender

\* goToPrev (button or ArrowLeft/PageUp)
goToPrev ==
    LET decrement == IF doublePageView THEN 2 ELSE 1
    IN  /\ mountedRef
        /\ IF currentPageIndex - decrement >= 0
           THEN currentPageIndex' = Max(currentPageIndex - decrement, 0)
           ELSE currentPageIndex' = currentPageIndex
        /\ UNCHANGED <<mountedRef, book, initializationRef, isLoading, error, pages,
                       metadata, textSettings, inflight, nextSeq, chapters, download,
                       onProgressUpdate, tempContainers, doublePageView, driveVars,
                       currentBookId>>
        /\ AfterRender

\* the Double Page View checkbox of the settings panel
ToggleDoublePageView ==
    /\ mountedRef
    /\ error = NoError
    /\ doublePageView' = ~doublePageView
    /\ IF doublePageView' /\ currentPageIndex % 2 # 0
       THEN currentPageIndex' = Max(0, currentPageIndex - 1)
       ELSE currentPageIndex' = currentPageIndex
    /\ UNCHANGED <<mountedRef, book, initializationRef, isLoading, error, pages,
                   metadata, textSettings, inflight, nextSeq, chapters, download,
                   onProgressUpdate, tempContainers, driveVars, currentBookId>>
    /\ AfterRender

\* the debounce timer set by saveProgress fires after 1 s
SaveProgressTimeout ==
    /\ saveProgressTimeoutRef # None
    /\ CallProgressSink(TRUE, saveProgressTimeoutRef[1])
    /\ saveProgressTimeoutRef' = None
    /\ UNCHANGED <<mountedRef, book, initializationRef, isLoading, error, pages,
                   currentPageIndex, metadata, textSettings, inflight, nextSeq,
                   chapters, download, onProgressUpdate, tempContainers,
                   doublePageView, driveVars, currentBookId>>

\* handleBackToLibrary (Back button, or Escape with the panel closed): saves
\* immediately and clears the pending timer; the parent unmounts the reader
\* later (Unmount)
handleBackToLibrary ==
    /\ mountedRef
    /\ CallProgressSink(Len(pages) > 0,
                        ProgressCall(book, currentPageIndex, Len(pages)))
    /\ saveProgressTimeoutRef' = IF Len(pages) > 0 /\ SaveThrows
                                 THEN saveProgressTimeoutRef
                                 ELSE None
    /\ UNCHANGED <<mountedRef, book, initializationRef, isLoading, error, pages,
                   currentPageIndex, metadata, textSettings, inflight, nextSeq,
                   chapters, download, onProgressUpdate, tempContainers,
                   doublePageView, driveVars, currentBookId>>

\* The parent renders the reader with another book.  The mounted effect is
\* cleaned up and set again; the init effect runs for the new book.id.
BookChange(b) ==
    LET starts == viewerRef /\ initializationRef # b.id
    IN  /\ mountedRef
        /\ b.id # book.id
        /\ book' = b
        /\ currentBookId' = b.id
        /\ IF starts
           THEN /\ StartInitReader(b, textSettings)
                /\ initializationRef' = b.id
           ELSE UNCHANGED <<isLoading, error, inflight, nextSeq, initializationRef>>
        /\ UNCHANGED <<mountedRef, pages, currentPageIndex, metadata, textSettings,
                       chapters, download, onProgressUpdate, tempContainers,
                       doublePageView, driveVars>>
        /\ AfterRender

\* an unmount whose cleanup clears the pending timer and saves nothing
UnmountWithoutSave ==
    /\ mountedRef
    /\ mountedRef' = FALSE
    /\ currentBookId' = NULL
    /\ saveProgressTimeoutRef' = None
    /\ UNCHANGED <<book, initializationRef, isLoading, error, pages, currentPageIndex,
                   metadata, textSettings, inflight, nextSeq, chapters, download,
                   onProgressUpdate, tempContainers, doublePageView, progressSink,
                   driveVars, library, localStorage>>

\* The reader is removed from the page: the effects are cleaned up.  The
\* unmount-save effect saves immediately and clears the pending timer.
Unmount ==
    /\ mountedRef
    /\ mountedRef' = FALSE
    /\ CallProgressSink(Len(pages) > 0 /\ currentPageIndex >= 0,
                        ProgressCall(book, currentPageIndex, Len(pages)))
    /\ currentBookId' = NULL
    /\ saveProgressTimeoutRef' = IF Len(pages) > 0 /\ currentPageIndex >= 0 /\ SaveThrows
                                 THEN saveProgressTimeoutRef
                                 ELSE None
    /\ UNCHANGED <<book, initializationRef, isLoading, error, pages, currentPageIndex,
                   metadata, textSettings, inflight, nextSeq, chapters, download,
                   onProgressUpdate, tempContainers, doublePageView, driveVars>>

\* a step of a suspended initReader
InitReaderStep ==
    \/ \E o \in inflight : UrlResolved(o)
    \/ \E o \in inflight : \E message \in UrlErrors : UrlRejected(o, message)
    \/ \E o \in inflight : ParseResolved(o)
    \/ \E o \in inflight : \E defect \in Defects : ParseRejected(o, defect)
    \/ \E o \in inflight : ParseTimedOut(o)

ChangeSettings ==
    \E field \in LayoutFields \cup {"theme"} :
       \E value \in PanelValues(field) : ChangeTextSettings(field, value)

\* The reader as the application uses it: opened on one book, until unmounted.
Next ==
    \/ ChangeSettings
    \/ InitReaderStep
    \/ Retry
    \/ goToNext
    \/ goToPrev
    \/ ToggleDoublePageView
    \/ SaveProgressTimeout
    \/ handleBackToLibrary
    \/ Unmount

Spec == Init /\ [][Next]_vars

\* The reader under a parent that changes the book prop of the mounted
\* component.
ChangeBook == \E b \in Library : BookChange(b)

NextSwitch ==
    \/ ChangeBook
    \/ InitReaderStep
    \/ Retry
    \/ goToNext
    \/ goToPrev
    \/ ToggleDoublePageView
    \/ SaveProgressTimeout
    \/ handleBackToLibrary
    \/ Unmount

SpecSwitch == Init /\ [][NextSwitch]_vars

\* Reading under a progress sink that may throw: a load that succeeds,
\* navigation, the debounce timer, Back and unmount.
NextSink ==
    \/ \E o \in inflight : UrlResolved(o)
    \/ \E o \in inflight : ParseResolved(o)
    \/ goToNext
    \/ goToPrev
    \/ ToggleDoublePageView
    \/ SaveProgressTimeout
    \/ handleBackToLibrary
    \/ Unmount

SpecSink == InitSink /\ [][NextSink]_vars

\* The reader with a timer that runs: a debounce timer that stays pending
\* fires (setTimeout of 1 s, with nothing that could hold the callback back).
SpecTimer == Init /\ [][Next]_vars /\ WF_vars(SaveProgressTimeout)

\* The loading pipeline alone: loads, reloads after settings changes,
\* failures and Retry, without navigation.
NextLoad ==
    \/ ChangeSettings
    \/ InitReaderStep
    \/ Retry
    \/ Unmount

SpecLoad == Init /\ [][NextLoad]_vars

\* Opening, navigation, double-page toggles and re-paginations, with loads
\* that succeed.
NextNavigate ==
    \/ ChangeSettings
    \/ \E o \in inflight : UrlResolved(o)
    \/ \E o \in inflight : ParseResolved(o)
    \/ goToNext
    \/ goToPrev
    \/ ToggleDoublePageView

SpecNavigate == Init /\ [][NextNavigate]_vars

(***************************************************************************)
(* The reader under the App: a book is read, closed and opened again.      *)
(***************************************************************************)
\* App.handleBookSelect (a book of the library view is clicked):
\* setCurrentBookId; the App renders a new DirectEpubReader on currentBook,
\* the record of the library, and its effects run as at any mount.  The
\* operations of an unmounted reader have ended before.
handleBookSelect(bookId) ==
    /\ currentBookId = NULL
    /\ appError = NULL
    /\ ~mountedRef
    /\ inflight = {}
    /\ nextSeq <= MaxOps
    /\ \E k \in 1..Len(library) :
          /\ library[k].id = bookId
          /\ book' = library[k]
    /\ currentBookId' = bookId
    /\ localStorage' = setItem(localStorage, LAST_BOOK_KEY, bookId)
    /\ mountedRef' = TRUE
    /\ textSettings' = DefaultTextSettings
    /\ initializationRef' = bookId
    /\ isLoading' = TRUE
    /\ error' = NoError
    /\ pages' = <<>>
    /\ currentPageIndex' = 0
    /\ metadata' = None
    /\ inflight' = {NewOp(book', DefaultTextSettings)}
    /\ nextSeq' = nextSeq + 1
    /\ doublePageView' = FALSE
    /\ saveProgressTimeoutRef' = None
    /\ UNCHANGED <<progressSink, chapters, download, onProgressUpdate, tempContainers,
                   library, driveVars>>

NextResume ==
    \/ \E o \in inflight : UrlResolved(o)
    \/ \E o \in inflight : ParseResolved(o)
    \/ goToNext
    \/ goToPrev
    \/ SaveProgressTimeout
    \/ handleBackToLibrary
    \/ Unmount
    \/ \E bookId \in BookIds : handleBookSelect(bookId)

SpecResume == Init /\ [][NextResume]_vars

(***************************************************************************)
(* The App: the library view with its Google Drive buttons, around the     *)
(* reader.  Covers (fetchMissingCovers), hidden books and the settings of  *)
(* the App are left out: they touch no field of a record but coverUrl.     *)
(***************************************************************************)
readerVars == <<mountedRef, book, initializationRef, isLoading, error, pages,
                currentPageIndex, metadata, textSettings, inflight, nextSeq,
                doublePageView, saveProgressTimeoutRef, progressSink, chapters,
                download, onProgressUpdate, tempContainers>>

\* the id the k-th call of crypto.randomUUID() returns
UUID(k) == "uuid-" \o ToString(k)

\* the Book a Drive file gets when the library has no record of it
NewBook(id, driveBook) ==
    [id |-> id, fileName |-> driveBook.fileName, googleDriveId |-> driveBook.id,
     currentPage |-> 1, progress |-> <<0, 1>>, currentCfi |-> None]

\* loadBooks: driveBooks.map(...) over the stored books; count is the number
\* of ids made so far
RECURSIVE MergeDriveBooks(_, _, _, _)
MergeDriveBooks(driveBooks, storedBooks, count, updatedLibrary) ==
    IF driveBooks = <<>>
    THEN [library |-> updatedLibrary, count |-> count]
    ELSE LET driveBook == Head(driveBooks)
             found == {k \in 1..Len(storedBooks) :
                          storedBooks[k].googleDriveId = driveBook.id}
             existingBook == storedBooks[CHOOSE k \in found : \A j \in found : k <= j]
         IN  IF found # {}
             THEN MergeDriveBooks(Tail(driveBooks), storedBooks, count,
                      Append(updatedLibrary,
                             [existingBook EXCEPT !.fileName = driveBook.fileName]))
             ELSE MergeDriveBooks(Tail(driveBooks), storedBooks, count + 1,
                      Append(updatedLibrary, NewBook(UUID(count + 1), driveBook)))

\* handleRefreshLibrary: driveBooks.map(...) making every record anew
RECURSIVE FreshLibrary(_, _, _)
FreshLibrary(driveBooks, count, updatedLibrary) ==
    IF driveBooks = <<>>
    THEN [library |-> updatedLibrary, count |-> count]
    ELSE FreshLibrary(Tail(driveBooks), count + 1,
             Append(updatedLibrary, NewBook(UUID(count + 1), Head(driveBooks))))

\* the books item of localStorage, parsed
StoredBooks(storage) ==
    IF storage[BOOKS_KEY] = None THEN <<>> ELSE storage[BOOKS_KEY][1]

\* The loadBooks effect, run with the value auth of isGoogleDriveAuthenticated:
\* what it leaves in the library, the error, the service, localStorage and
\* the id count.
loadBooks(auth, service, storage, books, count) ==
    IF ~auth
    THEN [library |-> <<>>, error |-> NULL, service |-> service,
          storage |-> storage, count |-> count]
    ELSE LET storedBooks == StoredBooks(storage)
             listed == listBooks(service, storage)
             merged == MergeDriveBooks(listed.books, storedBooks, count, <<>>)
         IN  IF listed.ok
             THEN [library |-> merged.library, error |-> NULL,
                   service |-> listed.service,
                   storage |-> setItem(listed.storage, BOOKS_KEY, merged.library),
                   count |-> merged.count]
             ELSE [library |-> books, error |-> listed.message,
                   service |-> listed.service, storage |-> listed.storage,
                   count |-> count]

\* The page is loaded: the service is constructed (loadStoredAuth), the App
\* mounts with its initial state, the mount effect sets
\* isGoogleDriveAuthenticated and the loadBooks effect runs.  A reader of
\* the page before is gone, without any cleanup.
AppMount ==
    LET stored == loadStoredAuth(localStorage)
        auth   == isAuthenticated(stored.service)
        loaded == loadBooks(auth, stored.service, stored.storage, <<>>, randomUUID)
    IN  /\ randomUUID + Cardinality(googleDrive.files) <= MaxUUIDs
        /\ googleDriveService' = loaded.service
        /\ localStorage' = loaded.storage
        /\ library' = loaded.library
        /\ appError' = loaded.error
        /\ isGoogleDriveAuthenticated' = auth
        /\ randomUUID' = loaded.count
        /\ currentBookId' = NULL
        /\ mountedRef' = FALSE
        /\ initializationRef' = NULL
        /\ isLoading' = TRUE
        /\ error' = NoError
        /\ pages' = <<>>
        /\ currentPageIndex' = 0
        /\ metadata' = None
        /\ textSettings' = DefaultTextSettings
        /\ inflight' = {}
        /\ doublePageView' = FALSE
        /\ saveProgressTimeoutRef' = None
        /\ UNCHANGED <<book, nextSeq, progressSink, chapters, download,
                       onProgressUpdate, tempContainers, googleDrive, now>>

\* what Google answers to requestAccessToken()
OAuthResponses ==
    {[granted |-> TRUE, expires_in |-> e] : e \in 1..MaxTime}
        \cup {[granted |-> FALSE, expires_in |-> 0]}

\* handleConnectGoogleDrive: authenticate(), and on success saveAuth,
\* setIsGoogleDriveAuthenticated(true) and the loadBooks effect
handleConnectGoogleDrive(response) ==
    LET token  == Token(googleDrive.issued + 1)
        saved  == saveAuth(googleDriveService, localStorage, token,
                           response.expires_in)
        loaded == loadBooks(TRUE, saved.service, saved.storage, library, randomUUID)
    IN  /\ appError = NULL
        /\ currentBookId = NULL
        /\ ~isGoogleDriveAuthenticated
        /\ IF response.granted
           THEN /\ googleDrive.issued < MaxTokens
                /\ randomUUID + Cardinality(googleDrive.files) <= MaxUUIDs
                /\ googleDrive' = [googleDrive EXCEPT !.issued = @ + 1]
                /\ googleDriveService' = loaded.service
                /\ localStorage' = loaded.storage
                /\ library' = loaded.library
                /\ appError' = loaded.error
                /\ randomUUID' = loaded.count
                /\ isGoogleDriveAuthenticated' = TRUE
           ELSE /\ appError' = "Failed to obtain access token"
                /\ UNCHANGED <<googleDrive, googleDriveService, localStorage, library,
                               randomUUID, isGoogleDriveAuthenticated>>
        /\ UNCHANGED <<readerVars, currentBookId, now>>

\* handleDisconnectGoogleDrive: googleDriveService.disconnect(), the state
\* and the items of the App are cleared; the loadBooks effect then sets the
\* empty library again
handleDisconnectGoogleDrive ==
    LET left == disconnect(localStorage, googleDrive)
    IN  /\ appError = NULL
        /\ currentBookId = NULL
        /\ isGoogleDriveAuthenticated
        /\ googleDriveService' = left.service
        /\ googleDrive' = left.drive
        /\ localStorage' = removeItem(removeItem(left.storage, BOOKS_KEY),
                                      LAST_BOOK_KEY)
        /\ isGoogleDriveAuthenticated' = FALSE
        /\ library' = <<>>
        /\ currentBookId' = NULL
        /\ appError' = NULL
        /\ UNCHANGED <<readerVars, now, randomUUID>>

\* handleRefreshLibrary (the Refresh Library button)
handleRefreshLibrary ==
    LET listed  == listBooks(googleDriveService,
                             removeItem(localStorage, FOLDER_KEY))
        updated == FreshLibrary(listed.books, randomUUID, <<>>)
    IN  /\ appError = NULL
        /\ currentBookId = NULL
        /\ isGoogleDriveAuthenticated
        /\ randomUUID + Cardinality(googleDrive.files) <= MaxUUIDs
        /\ googleDriveService' = listed.service
        /\ IF listed.ok
           THEN /\ library' = updated.library
                /\ localStorage' = setItem(listed.storage, BOOKS_KEY, updated.library)
                /\ randomUUID' = updated.count
                /\ appError' = NULL
           ELSE /\ appError' = listed.message
                /\ localStorage' = listed.storage
                /\ UNCHANGED <<library, randomUUID>>
        /\ UNCHANGED <<readerVars, currentBookId, isGoogleDriveAuthenticated,
                       googleDrive, now>>

\* the user puts a book file into the books folder of Drive, or takes one out
DriveFolderChange(file) ==
    /\ googleDrive' = [googleDrive EXCEPT
                          !.files = IF file \in @ THEN @ \ {file} ELSE @ \cup {file}]
    /\ UNCHANGED <<readerVars, library, currentBookId, isGoogleDriveAuthenticated,
                   appError, localStorage, googleDriveService, now, randomUUID>>

\* time passes
Tick ==
    /\ now < MaxTime
    /\ now' = now + 1
    /\ UNCHANGED <<readerVars, library, currentBookId, isGoogleDriveAuthenticated,
                   appError, localStorage, googleDriveService, googleDrive,
                   randomUUID>>

\* onProgressUpdate is called by a reader the App has open on a book of the
\* library, showing page pageIndex + 1 of totalPages
ProgressUpdate(bookId, pageIndex, totalPages) ==
    /\ appError = NULL
    /\ \E k \in 1..Len(library) :
          /\ library[k].id = bookId
          /\ CallProgressSink(TRUE, ProgressCall(library[k], pageIndex, totalPages))
    /\ UNCHANGED <<mountedRef, book, initializationRef, isLoading, error, pages,
                   currentPageIndex, metadata, textSettings, inflight, nextSeq,
                   doublePageView, saveProgressTimeoutRef, chapters, download,
                   onProgressUpdate, tempContainers, driveVars, currentBookId>>

\* a first visit: nothing is stored, the service holds no token, and no
\* reader has been rendered
InitApp ==
    /\ now = 0
    /\ randomUUID = 0
    /\ googleDrive \in {[files |-> files, issued |-> 0, revoked |-> {}] :
                            files \in SUBSET BookIds}
    /\ googleDriveService = [accessToken |-> NULL, tokenExpiry |-> None,
                             booksFolder |-> NULL]
    /\ localStorage = [key \in StorageKeys |-> None]
    /\ library = <<>>
    /\ currentBookId = NULL
    /\ isGoogleDriveAuthenticated = FALSE
    /\ appError = NULL
    /\ mountedRef = FALSE
    /\ book = Book("plain", 1, <<0, 1>>)
    /\ textSettings = DefaultTextSettings
    /\ initializationRef = NULL
    /\ isLoading = TRUE
    /\ error = NoError
    /\ pages = <<>>
    /\ currentPageIndex = 0
    /\ metadata = None
    /\ inflight = {}
    /\ nextSeq = 1
    /\ doublePageView = FALSE
    /\ saveProgressTimeoutRef = None
    /\ progressSink = None
    /\ chapters = <<>>
    /\ download = None
    /\ onProgressUpdate = "returns"
    /\ tempContainers = 0

NextApp ==
    \/ AppMount
    \/ \E response \in OAuthResponses : handleConnectGoogleDrive(response)
    \/ handleDisconnectGoogleDrive
    \/ handleRefreshLibrary
    \/ \E k \in 1..Len(library) : \E totalPages \in 1..MaxPages :
          \E pageIndex \in 0..(totalPages - 1) :
             ProgressUpdate(library[k].id, pageIndex, totalPages)
    \/ \E file \in BookIds : DriveFolderChange(file)
    \/ Tick

SpecApp == InitApp /\ [][NextApp]_vars

(***************************************************************************)
(* splitIntoPages on its own: the chapter list and the settings are drawn  *)
(* from bounded sets and one call is made.                                 *)
(***************************************************************************)
ShapeNames == {"p", "bigp", "divpp", "text"}

\* the node of a shape; id numbers the node within the chapter list
ShapeNode(shape, id) ==
    CASE shape = "p" -> P(id, 816)
      [] shape = "bigp" -> P(id, 2000)
      [] shape = "divpp" -> Elem("div", id, <<P(id + 100, 300), P(id + 200, 300)>>)
      [] shape = "text" -> TextNode(300)

\* a chapter list written flat: shapes, with "|" between two chapters
FlatLists ==
    UNION {[1..n -> ShapeNames \cup {"|"}] : n \in 0..(MaxNodes + MaxChapters - 1)}

CountOf(x, seq) == Cardinality({i \in 1..Len(seq) : seq[i] = x})

\* the chapters of a flat list; c is the number of the chapter being read,
\* at the position pos, with the content read so far
RECURSIVE ReadChapters(_, _, _, _)
ReadChapters(flat, pos, c, content) ==
    LET chapter == [id |-> <<"chapter", c>>, title |-> <<"Chapter ", c>>,
                    content |-> content, href |-> <<"OEBPS/", c>>]
    IN  IF pos > Len(flat) THEN <<chapter>>
        ELSE IF flat[pos] = "|"
        THEN <<chapter>> \o ReadChapters(flat, pos + 1, c + 1, <<>>)
        ELSE ReadChapters(flat, pos + 1, c, Append(content, ShapeNode(flat[pos], pos)))

ChapterLists ==
    {ReadChapters(flat, 1, 1, <<>>) :
        flat \in {f \in FlatLists : /\ CountOf("|", f) <= MaxChapters - 1
                                    /\ Len(f) - CountOf("|", f) <= MaxNodes}}

PaginateSettings ==
    {DefaultTextSettings,
     [DefaultTextSettings EXCEPT !.fontSize = 24],
     [DefaultTextSettings EXCEPT !.lineHeight = 20],
     [DefaultTextSettings EXCEPT !.fontFamily = "courier", !.margin = 80]}

InitPaginate ==
    /\ chapters \in ChapterLists
    /\ textSettings \in PaginateSettings
    /\ mountedRef = TRUE
    /\ book = Book("plain", 1, <<0, 1>>)
    /\ initializationRef = book.id
    /\ isLoading = TRUE
    /\ error = NoError
    /\ pages = <<>>
    /\ currentPageIndex = 0
    /\ metadata = None
    /\ inflight = {}
    /\ nextSeq = 1
    /\ doublePageView = FALSE
    /\ saveProgressTimeoutRef = None
    /\ progressSink = None
    /\ download = None
    /\ onProgressUpdate = "returns"
    /\ tempContainers = 0
    /\ AppOpenOn(<<book>>, book)

\* const epubPages = splitIntoPages(parsedChapters, textSettings); setPages
Paginate ==
    /\ isLoading
    /\ pages' = splitIntoPages(chapters, textSettings)
    /\ isLoading' = FALSE
    /\ UNCHANGED <<mountedRef, book, initializationRef, error, currentPageIndex,
                   metadata, textSettings, inflight, nextSeq, chapters, download,
                   onProgressUpdate, tempContainers, doublePageView,
                   saveProgressTimeoutRef, progressSink, driveVars, currentBookId,
                   library, localStorage>>

SpecPaginate == InitPaginate /\ [][Paginate]_vars

(***************************************************************************)
(* parseEpub on its own: the archive is drawn from a bounded set and one   *)
(* call is made.                                                           *)
(***************************************************************************)
\* what can be the matter with an itemref of the spine: nothing, no manifest
\* item of its idref, a manifest item without href, an href without file in
\* the zip, a file that cannot be read as text
ItemKinds == {"ok", "nomanifest", "nohref", "nofile", "unreadable"}

ItemIds == <<"c1", "c2", "c3", "c4", "c5", "c6">>
ItemHrefs == <<"c1.xhtml", "c2.xhtml", "c3.xhtml", "c4.xhtml", "c5.xhtml", "c6.xhtml">>

\* the archive whose i-th itemref is of kind kinds[i]
ArchiveOfKinds(kinds) ==
    LET n        == Len(kinds)
        listed   == SelectSeq([i \in 1..n |-> i], LAMBDA i : kinds[i] # "nomanifest")
        manifest == [j \in 1..Len(listed) |->
                        [id |-> ItemIds[listed[j]],
                         href |-> IF kinds[listed[j]] = "nohref" THEN NULL
                                  ELSE ItemHrefs[listed[j]]]]
        stored   == {i \in 1..n : kinds[i] \in {"ok", "unreadable"}}
        files    == [h \in {ItemHrefs[i] : i \in stored} |->
                        LET i == CHOOSE k \in stored : ItemHrefs[k] = h
                        IN  [readable |-> kinds[i] = "ok", title |-> NULL,
                             body |-> <<P(i, 816)>>]]
    IN  Archive(manifest, [i \in 1..n |-> ItemIds[i]], files)

SpineArchives ==
    {ArchiveOfKinds(kinds) : kinds \in UNION {[1..n -> ItemKinds] : n \in 0..MaxSpine}}

InitParse ==
    /\ download \in SpineArchives
    /\ chapters = <<>>
    /\ textSettings = DefaultTextSettings
    /\ mountedRef = TRUE
    /\ book = Book("plain", 1, <<0, 1>>)
    /\ initializationRef = book.id
    /\ isLoading = TRUE
    /\ error = NoError
    /\ pages = <<>>
    /\ currentPageIndex = 0
    /\ metadata = None
    /\ inflight = {}
    /\ nextSeq = 1
    /\ doublePageView = FALSE
    /\ saveProgressTimeoutRef = None
    /\ progressSink = None
    /\ onProgressUpdate = "returns"
    /\ tempContainers = 0
    /\ AppOpenOn(<<book>>, book)

\* await parseEpub(url), and what initReader does with its outcome
ParseDownload ==
    LET parsed == parseEpub(TRUE, download, book.fileName)
    IN  /\ isLoading
        /\ isLoading' = FALSE
        /\ IF parsed.ok
           THEN /\ chapters' = parsed.chapters
                /\ metadata' = Some(parsed.metadata)
                /\ error' = error
           ELSE /\ error' = parsed.message
                /\ UNCHANGED <<chapters, metadata>>
        /\ UNCHANGED <<mountedRef, book, initializationRef, pages, currentPageIndex,
                       textSettings, inflight, nextSeq, doublePageView,
                       saveProgressTimeoutRef, progressSink, download,
                       onProgressUpdate, tempContainers, driveVars, currentBookId,
                       library, localStorage>>

SpecParse == InitParse /\ [][ParseDownload]_vars

(***************************************************************************)
(* splitIntoPages step by step: the container is appended, the chapters    *)
(* are measured, the finally block removes the container.  The function is *)
(* called again and again with the same chapters and settings.             *)
(***************************************************************************)
InitMeasure ==
    /\ chapters \in {ParsedDownload[id]["none"].chapters : id \in BookIds}
    /\ textSettings \in TextSettingsSet
    /\ mountedRef = TRUE
    /\ book = Book("plain", 1, <<0, 1>>)
    /\ initializationRef = book.id
    /\ isLoading = TRUE
    /\ error = NoError
    /\ pages = <<>>
    /\ currentPageIndex = 0
    /\ metadata = None
    /\ inflight = {}
    /\ nextSeq = 1
    /\ doublePageView = FALSE
    /\ saveProgressTimeoutRef = None
    /\ progressSink = None
    /\ download = None
    /\ onProgressUpdate = "returns"
    /\ tempContainers = 0
    /\ AppOpenOn(<<book>>, book)

\* a call of splitIntoPages is between appendChild and the finally block
Measuring(o) == o.phase = "split"

\* what a failing measurement throws
MeasureError == <<"Cannot read properties of undefined (reading 'content')">>

\* splitIntoPages is entered: document.body.appendChild(tempContainer).  A
\* call runs to its end before the next one is made.
AppendContainer ==
    /\ nextSeq <= MaxOps
    /\ \A o \in inflight : ~Measuring(o)
    /\ tempContainers' = tempContainers + 1
    /\ inflight' = inflight \cup {[NewOp(book, textSettings) EXCEPT !.phase = "split"]}
    /\ nextSeq' = nextSeq + 1
    /\ isLoading' = TRUE
    /\ UNCHANGED <<mountedRef, book, initializationRef, error, pages,
                   currentPageIndex, metadata, textSettings, doublePageView,
                   saveProgressTimeoutRef, progressSink, chapters, download,
                   onProgressUpdate, driveVars, currentBookId, library, localStorage>>

\* a try block that returns its pages added to those of the call before
MeasureReturnsKeepingPages(o) ==
    /\ o \in inflight
    /\ Measuring(o)
    /\ tempContainers' = tempContainers - 1
    /\ pages' = SplitChapters(chapters, o.settings, pages)
    /\ isLoading' = FALSE
    /\ inflight' = inflight \ {o}
    /\ UNCHANGED <<mountedRef, book, initializationRef, error, currentPageIndex,
                   metadata, textSettings, nextSeq, doublePageView,
                   saveProgressTimeoutRef, progressSink, chapters, download,
                   onProgressUpdate, driveVars, currentBookId, library, localStorage>>

\* the try block runs to its end; finally removes the container; the pages
\* are returned and set
MeasureReturns(o) ==
    /\ o \in inflight
    /\ Measuring(o)
    /\ tempContainers' = tempContainers - 1
    /\ pages' = splitIntoPages(chapters, o.settings)
    /\ isLoading' = FALSE
    /\ inflight' = inflight \ {o}
    /\ UNCHANGED <<mountedRef, book, initializationRef, error, currentPageIndex,
                   metadata, textSettings, nextSeq, doublePageView,
                   saveProgressTimeoutRef, progressSink, chapters, download,
                   onProgressUpdate, driveVars, currentBookId, library, localStorage>>

\* a measurement that throws out of a function without finally block
MeasureThrowsWithoutFinally(o) ==
    /\ o \in inflight
    /\ Measuring(o)
    /\ tempContainers' = tempContainers
    /\ inflight' = inflight \ {o}
    /\ Catch(MeasureError)
    /\ UNCHANGED <<mountedRef, book, pages, currentPageIndex, metadata, textSettings,
                   nextSeq, doublePageView, saveProgressTimeoutRef, progressSink,
                   chapters, download, onProgressUpdate, driveVars, currentBookId,
                   library, localStorage>>

\* the try block throws; finally removes the container; the exception goes
\* to the catch block of initReader
MeasureThrows(o) ==
    /\ o \in inflight
    /\ Measuring(o)
    /\ tempContainers' = tempContainers - 1
    /\ inflight' = inflight \ {o}
    /\ Catch(MeasureError)
    /\ UNCHANGED <<mountedRef, book, pages, currentPageIndex, metadata, textSettings,
                   nextSeq, doublePageView, saveProgressTimeoutRef, progressSink,
                   chapters, download, onProgressUpdate, driveVars, currentBookId,
                   library, localStorage>>

NextMeasure ==
    \/ AppendContainer
    \/ \E o \in inflight : MeasureReturns(o)
    \/ \E o \in inflight : MeasureThrows(o)

SpecMeasure == InitMeasure /\ [][NextMeasure]_vars

(***************************************************************************)
(* Properties.                                                             *)
(***************************************************************************)
Abs(x) == IF x < 0 THEN 0 - x ELSE x

Ready == ~isLoading /\ error = NoError

\* the markup of all pages, in page order
PagesMarkup == Flatten([i \in 1..Len(pages) |-> pages[i].content])

\* the open tags of the block elements in a markup, in order of appearance;
\* id 0 is the wrapper that splitIntoPages itself adds
BlockOpenTags(html) ==
    SelectSeq(html, LAMBDA t : t.k = "open" /\ t.tag \in BlockTags /\ t.id # 0)

\* the block elements of all chapters, in document order
ChapterBlocks ==
    Flatten([c \in 1..Len(chapters) |-> querySelectorAll(chapters[c].content, BlockTags)])

\* C1: once splitIntoPages has returned, the pages' contents concatenated in
\* order hold the markup of every block element of every chapter exactly
\* once and in document order, also where a block is nested in another.
C1_RoundTrip ==
    ~isLoading =>
        BlockOpenTags(PagesMarkup)
            = [i \in 1..Len(ChapterBlocks) |->
                  Tok("open", ChapterBlocks[i].tag, ChapterBlocks[i].id, 0)]

\* C2: a commit that replaces the pages of a session that had pages keeps the
\* fractional position: |newIndex/newCount - oldIndex/oldCount| <= 1/newCount.
C2_PositionPreserved ==
    [][(mountedRef /\ Len(pages) > 0 /\ pages' # pages /\ Len(pages') > 0) =>
          Abs(currentPageIndex' * Len(pages) - currentPageIndex * Len(pages'))
              <= Len(pages)]_vars

\* what splitIntoPages gives for the open book under the current settings
PagesOfCurrentLayout ==
    splitIntoPages(parseEpub(TRUE, ArchiveOf(book.id), book.fileName).chapters,
                   textSettings)

\* C3: whenever the session is Ready with pages and no load in flight, the
\* pages are those of the current font size, family, line height and margin.
C3_PagesReflectLayout ==
    (mountedRef /\ Ready /\ inflight = {} /\ Len(pages) > 0) =>
        pages = PagesOfCurrentLayout

\* C4: an operation never commits pages or an index once a later operation
\* of the session has started.
C4_NewerSupersedes ==
    [][\A o \in inflight :
          (o \notin inflight' /\ o.seq < nextSeq - 1) =>
              UNCHANGED <<pages, currentPageIndex>>]_vars

\* C5: there is no Loading state in which no operation is running that
\* could end it.
C5_LoadingHasOperation ==
    (mountedRef /\ isLoading) => inflight # {}

\* C6: pressing Retry starts a new load operation.
C6_RetryStartsLoad ==
    [][Retry => \E o \in inflight' : o \notin inflight]_vars

\* C7: the 30 s timer runs for a load in both of its phases, the byte fetch
\* (getBookUrl) and the parse.
C7_TimerCoversBothPhases ==
    \A o \in inflight : TimerArmed(o)

\* C8: an operation started for one book writes no pages, index, metadata,
\* error or loading status once the component's book is another one.
C8_StaleBookWritesNothing ==
    [][\A o \in inflight :
          (o \notin inflight' /\ o.book.id # book.id) =>
              UNCHANGED <<pages, currentPageIndex, metadata, error, isLoading>>]_vars

\* the message each failure of the pipeline is reported with
FailureMessage(kind) ==
    CASE kind = "url" -> <<"Failed to get book URL: ", "Failed to download file">>
      [] kind = "fetch" -> <<"Failed to parse EPUB: ", "Failed to fetch EPUB: 404 Not Found">>
      [] kind = "zip" ->
            <<"Failed to parse EPUB: ", "Corrupted zip: can't find end of central directory">>
      [] kind = "container" ->
            <<"Failed to parse EPUB: ", "Invalid EPUB: container.xml not found">>
      [] kind = "fullPath" ->
            <<"Failed to parse EPUB: ", "Invalid EPUB: OPF file path not found">>
      [] kind = "opf" -> <<"Failed to parse EPUB: ", "Invalid EPUB: OPF file not found">>
      [] kind = "spine" -> <<"Failed to parse EPUB: ", "No readable chapters found in EPUB">>

\* C9: when an operation of the mounted reader fails - getBookUrl rejected,
\* fetch not OK, unreadable zip, container.xml, rootfile full-path or OPF
\* file missing, no chapter extracted - the session is left in Error with
\* the message of that failure, not loading and not Ready.
C9_FailureEndsInError ==
    [][\A o \in inflight : \A kind \in Defects \cup {"url"} :
          (/\ mountedRef
           /\ IF kind = "url"
              THEN \E message \in UrlErrors : UrlRejected(o, message)
              ELSE ParseRejected(o, kind)) =>
              /\ error' = FailureMessage(kind)
              /\ error' # NoError
              /\ ~isLoading'
              /\ ~Ready']_vars

\* the reader shows that the archive has no container.xml, after an earlier
\* load had delivered pages
C9_Witness ==
    /\ mountedRef
    /\ ~isLoading
    /\ error = <<"Failed to parse EPUB: ", "Invalid EPUB: container.xml not found">>
    /\ Len(pages) > 0

\* C10: in Error the session holds no pages.
C10_ErrorHoldsNoPages ==
    (mountedRef /\ error # NoError) => pages = <<>>


\* C11: with a non-empty page list the index is a valid one,
\* 0 <= currentPageIndex <= pageCount - 1.
C11_IndexInBounds ==
    Len(pages) > 0 => (0 <= currentPageIndex /\ currentPageIndex <= Len(pages) - 1)

\* a re-pagination has left the book, whose record holds a page number past
\* the page count, on the last page, in double-page view
C11_Witness ==
    /\ nextSeq > 2
    /\ inflight = {}
    /\ Len(pages) > 0
    /\ book.currentPage > Len(pages)
    /\ currentPageIndex = Len(pages) - 1
    /\ doublePageView
    /\ textSettings.fontSize = 18


\* the step of the view: 2 pages in double-page view, else 1
NavigationStep == IF doublePageView THEN 2 ELSE 1

\* C12: goToNext moves the index forward by exactly the step of the view
\* whenever the target index exists, and leaves it at the last page;
\* goToPrev moves it back by the same step whenever the target exists, and
\* leaves it at the first page.
C12_NavigationStep ==
    [][/\ goToNext =>
            /\ currentPageIndex + NavigationStep <= Len(pages) - 1
                  => currentPageIndex' = currentPageIndex + NavigationStep
            /\ currentPageIndex = Len(pages) - 1
                  => currentPageIndex' = currentPageIndex
       /\ goToPrev =>
            /\ currentPageIndex - NavigationStep >= 0
                  => currentPageIndex' = currentPageIndex - NavigationStep
            /\ currentPageIndex = 0
                  => currentPageIndex' = currentPageIndex]_vars

\* in double-page view goToPrev has just moved the index two pages back
C12_Witness ==
    /\ mountedRef
    /\ doublePageView
    /\ Len(pages) > 2
    /\ progressSink = Some(ProgressCall(book, currentPageIndex + 2, Len(pages)))

\* C13: when a step of 2 would overshoot but the index is not at the
\* boundary, goToNext goes to the last page and goToPrev to page 0.
C13_NavigationClamps ==
    (mountedRef /\ doublePageView /\ Len(pages) >= 2) =>
        /\ currentPageIndex = Len(pages) - 2 =>
              ENABLED (goToNext /\ currentPageIndex' = Len(pages) - 1)
        /\ currentPageIndex = 1 =>
              ENABLED (goToPrev /\ currentPageIndex' = 0)


\* C14: the first successful load of a book whose record holds the progress
\* p > 0 starts at index min(floor(p * n), n - 1) of its n pages, whatever
\* page number the record holds besides.
C14_ResumeByProgress ==
    [][(mountedRef /\ Len(pages) = 0 /\ Len(pages') > 0 /\ book.progress[1] > 0) =>
          currentPageIndex' =
              Min((book.progress[1] * Len(pages')) \div book.progress[2],
                  Len(pages') - 1)]_vars


\* the elements splitIntoPages takes from the chapters, in order
PageElements ==
    Flatten([c \in 1..Len(chapters) |-> ChapterElements(chapters[c])])

\* C15: every page of splitIntoPages measures at or under pageHeight or is
\* one element alone; a single chapter whose sole block is higher than
\* pageHeight gives exactly one page, holding that block.
C15_PageFit ==
    ~isLoading =>
        /\ \A i \in 1..Len(pages) :
              \/ scrollHeight(pages[i].content, textSettings) <= pageHeight
              \/ \E j \in 1..Len(PageElements) :
                    pages[i].content = outerHTML(PageElements[j])
        /\ (/\ Len(chapters) = 1
            /\ Len(chapters[1].content) = 1
            /\ Len(PageElements) = 1
            /\ scrollHeight(outerHTML(PageElements[1]), textSettings) > pageHeight)
              => pages = <<Page(1, outerHTML(PageElements[1]), chapters[1].title, 1)>>

\* one chapter of one paragraph of 2000 characters has been paginated into
\* one page higher than pageHeight
C15_Witness ==
    /\ ~isLoading
    /\ Len(chapters) = 1
    /\ chapters[1].content = <<P(1, 2000)>>
    /\ Len(pages) = 1
    /\ scrollHeight(pages[1].content, textSettings) > pageHeight

\* C16: a chapter with empty content contributes no page.
C16_NoPhantomPage ==
    ~isLoading =>
        \A c \in 1..Len(chapters) :
            chapters[c].content = <<>> =>
                \A i \in 1..Len(pages) : pages[i].chapterTitle # chapters[c].title


\* the number of the chapter a page belongs to
ChapterOfPage(page) ==
    CHOOSE c \in 1..Len(chapters) : chapters[c].title = page.chapterTitle

\* the place of a block in document order
DocumentIndex(id) ==
    CHOOSE k \in 1..Len(ChapterBlocks) : ChapterBlocks[k].id = id

\* C18: pages come in reading order: chapters in spine order, blocks in
\* document order within and across pages, ids page-1 .. page-N in emission
\* order, pageNumber from 1 in every chapter and up by 1 per page.
C18_ReadingOrder ==
    ~isLoading =>
        LET opened == BlockOpenTags(PagesMarkup)
        IN  /\ \A i \in 1..Len(pages) : pages[i].id = <<"page-", i>>
            /\ \A i \in 1..Len(pages) : \A j \in 1..Len(pages) :
                  i < j => ChapterOfPage(pages[i]) <= ChapterOfPage(pages[j])
            /\ \A i \in 1..Len(pages) :
                  pages[i].pageNumber =
                      IF i = 1 \/ pages[i - 1].chapterTitle # pages[i].chapterTitle
                      THEN 1
                      ELSE pages[i - 1].pageNumber + 1
            /\ \A i \in 1..Len(opened) : \A j \in 1..Len(opened) :
                  i < j => DocumentIndex(opened[i].id) <= DocumentIndex(opened[j].id)


\* an itemref resolves: a manifest item has its idref, the item has an href,
\* the zip holds the file and the file can be read
Resolves(archive, idref) ==
    \E k \in 1..Len(archive.manifest) :
        /\ archive.manifest[k].id = idref
        /\ archive.manifest[k].href # NULL
        /\ archive.manifest[k].href \in DOMAIN archive.files
        /\ archive.files[archive.manifest[k].href].readable

\* C17: parseEpub returns the chapters of exactly the itemrefs that resolve,
\* in spine order, and fails, with the no-readable-chapters message, exactly
\* when none resolves.
C17_SpineSkips ==
    ~isLoading =>
        LET expected == SelectSeq(download.spine, LAMBDA r : Resolves(download, r))
        IN  IF expected = <<>>
            THEN /\ error = <<"Failed to parse EPUB: ", "No readable chapters found in EPUB">>
                 /\ chapters = <<>>
            ELSE /\ error = NoError
                 /\ [i \in 1..Len(chapters) |-> chapters[i].id] = expected

\* a spine of three itemrefs, the second without file in the zip, has given
\* two chapters
C17_Witness ==
    /\ ~isLoading
    /\ error = NoError
    /\ Len(download.spine) = 3
    /\ \E k \in 1..Len(download.manifest) :
           /\ download.manifest[k].id = "c2"
           /\ download.manifest[k].href = "c2.xhtml"
    /\ "c2.xhtml" \notin DOMAIN download.files
    /\ [i \in 1..Len(chapters) |-> chapters[i].id] = <<"c1", "c3">>


\* C19: the progress of every call that reaches the progress sink is
\* (currentPageIndex + 1) / pageCount, the fraction the page counter shows:
\* progress * pageCount = page number of the call.
C19_PersistedProgress ==
    progressSink # None =>
        progressSink[1].progress[1] * progressSink[1].totalPages
            = progressSink[1].currentPage * progressSink[1].progress[2]


\* C20: every call that reaches the progress sink carries the id of the open
\* book, a progress within [0, 1], a page number within 1..pageCount and the
\* token page-<page number>; while there has been no page, there is no call.
C20_SinkArguments ==
    /\ [](progressSink # None =>
            LET call == progressSink[1]
            IN  /\ call.bookId = book.id
                /\ 0 <= call.progress[1]
                /\ call.progress[1] <= call.progress[2]
                /\ call.progress[2] > 0
                /\ call.totalPages > 0
                /\ 1 <= call.currentPage
                /\ call.currentPage <= call.totalPages
                /\ call.currentCfi = <<"page-", call.currentPage>>)
    /\ [][Len(pages) = 0 => progressSink' = progressSink]_vars

\* the timer of saveProgress has delivered the call of the last of several
\* pages
C20_Witness ==
    /\ progressSink # None
    /\ saveProgressTimeoutRef = None
    /\ mountedRef
    /\ Len(pages) > 1
    /\ progressSink[1].currentPage = Len(pages)
    /\ progressSink[1].currentPage = currentPageIndex + 1
    /\ progressSink[1].totalPages = Len(pages)


\* a commit that replaces the pages of a session that had pages
RepaginationCommit ==
    /\ mountedRef
    /\ Len(pages) > 0
    /\ Len(pages') > 0
    /\ pages' # pages

\* C23: the step that commits the pages of a re-pagination calls the progress
\* sink, in that step, with the new index and the new page count.
C23_RepaginationSaves ==
    [][RepaginationCommit =>
          /\ progressSink' # None
          /\ progressSink'[1].currentPage = currentPageIndex' + 1
          /\ progressSink'[1].totalPages = Len(pages')]_vars


\* C24: once the chapters of the open book have been extracted, a change of
\* the text settings starts no getBookUrl, download or parseEpub again.
C24_LayoutChangeParsesNothing ==
    [][(ChangeSettings /\ metadata # None /\ Len(pages) > 0) =>
          /\ inflight' = inflight
          /\ nextSeq' = nextSeq]_vars


\* C25: toggling the double-page view in Ready with pages puts the session
\* into Loading, for the re-pagination that follows.
C25_ToggleRepaginates ==
    [][(ToggleDoublePageView /\ Ready /\ Len(pages) > 0) => isLoading']_vars


\* C26: a re-pagination takes the position before it as the progress
\* (index + 1) / pageCount and commits the index floor(progress * newCount),
\* kept within the new pages: index 4 of 10 becomes index 8 of 16.
C26_IndexFromProgress ==
    [][RepaginationCommit =>
          currentPageIndex' =
              Min(((currentPageIndex + 1) * Len(pages')) \div Len(pages),
                  Len(pages') - 1)]_vars


\* C30: a step that changes the theme only starts no load and leaves the
\* pages, the index and the load status as they are, in every reachable
\* state.
C30_ThemeChangeDoesNoLayoutWork ==
    [][\A value \in Themes :
          ChangeTextSettings("theme", value) =>
              UNCHANGED <<pages, currentPageIndex, isLoading, inflight, nextSeq>>]_vars


\* the last call the sink received describes the position shown
SinkCurrent ==
    /\ progressSink # None
    /\ progressSink[1].bookId = book.id
    /\ progressSink[1].currentPage = currentPageIndex + 1
    /\ progressSink[1].totalPages = Len(pages)

\* C21: a change of the index in Ready schedules the save of the new index;
\* a timer that is left pending delivers it; and in Ready, with no timer
\* pending, the last call the sink received is the current position.
C21_DebouncedSaveDelivered ==
    /\ [][(mountedRef /\ Ready /\ Ready' /\ currentPageIndex' # currentPageIndex) =>
             /\ saveProgressTimeoutRef' # None
             /\ saveProgressTimeoutRef'[1].currentPage = currentPageIndex' + 1]_vars
    /\ [](saveProgressTimeoutRef # None =>
             /\ saveProgressTimeoutRef[1].currentPage = currentPageIndex + 1
             /\ saveProgressTimeoutRef[1].totalPages = Len(pages))
    /\ [](mountedRef /\ Ready /\ Len(pages) > 0 /\ saveProgressTimeoutRef = None
             => SinkCurrent)
    /\ (mountedRef /\ Ready /\ Len(pages) > 0)
           ~> (SinkCurrent \/ ~mountedRef \/ ~Ready)

\* the timer has delivered the page the reader had moved on to
C21_Witness ==
    /\ mountedRef
    /\ Ready
    /\ saveProgressTimeoutRef = None
    /\ SinkCurrent
    /\ currentPageIndex > 0
    /\ currentPageIndex + 1 # book.currentPage


\* a call carries the position (index, pageCount)
CallOf(call, index, pageCount) ==
    /\ call # None
    /\ call[1].currentPage = index + 1
    /\ call[1].totalPages = pageCount

\* C22: Back (or Escape) and unmount, in a session with pages, call the sink
\* in that step with the current position and leave no timer pending; after
\* the unmount the sink receives nothing more; and no call at all carries a
\* position other than the one shown before or after its step.
C22_CloseSavesFinalPosition ==
    /\ [][((handleBackToLibrary \/ Unmount) /\ Len(pages) > 0) =>
             /\ CallOf(progressSink', currentPageIndex, Len(pages))
             /\ saveProgressTimeoutRef' = None]_vars
    /\ [][~mountedRef => progressSink' = progressSink]_vars
    /\ [][progressSink' # progressSink =>
             \/ CallOf(progressSink', currentPageIndex, Len(pages))
             \/ CallOf(progressSink', currentPageIndex', Len(pages'))]_vars

\* the reader was unmounted on a page it had moved to, and the sink holds
\* that page
C22_Witness ==
    /\ ~mountedRef
    /\ Len(pages) > 1
    /\ saveProgressTimeoutRef = None
    /\ CallOf(progressSink, currentPageIndex, Len(pages))
    /\ currentPageIndex + 1 # book.currentPage
    /\ currentPageIndex > 0


\* C27: while the sink throws at every call, a step that calls it changes
\* nothing but what it changes under a sink that returns: the timer callback
\* and Back leave pages, index, load status and error alone and leave no
\* timer pending, the unmount leaves no timer pending, and navigation moves
\* the index and schedules the save of the new index as ever.
C27_FailingSinkBlocksNothing ==
    [][onProgressUpdate = "throws" =>
          /\ (SaveProgressTimeout \/ handleBackToLibrary) =>
                /\ UNCHANGED <<pages, currentPageIndex, isLoading, error, mountedRef>>
                /\ saveProgressTimeoutRef' = None
          /\ Unmount => saveProgressTimeoutRef' = None
          /\ (goToNext /\ currentPageIndex + NavigationStep <= Len(pages) - 1) =>
                /\ currentPageIndex' = currentPageIndex + NavigationStep
                /\ Ready => CallOf(saveProgressTimeoutRef', currentPageIndex', Len(pages'))
          /\ (goToPrev /\ currentPageIndex - NavigationStep >= 0) =>
                /\ currentPageIndex' = currentPageIndex - NavigationStep
                /\ Ready => CallOf(saveProgressTimeoutRef', currentPageIndex', Len(pages'))]_vars

\* under a sink that throws, Back was pressed on a page the reader had moved
\* to: the call was made, no timer is pending, the reader is still Ready
C27_Witness ==
    /\ onProgressUpdate = "throws"
    /\ mountedRef
    /\ Ready
    /\ Len(pages) > 1
    /\ currentPageIndex + 1 # book.currentPage
    /\ CallOf(progressSink, currentPageIndex, Len(pages))
    /\ saveProgressTimeoutRef = None


\* C28: at most one measurement container is attached to the document, one
\* is attached exactly while a call of splitIntoPages is measuring, and none
\* once the call has ended, by return or by exception.
C28_ContainerReleased ==
    /\ tempContainers <= 1
    /\ (\E o \in inflight : Measuring(o)) => tempContainers = 1
    /\ (\A o \in inflight : ~Measuring(o)) => tempContainers = 0

\* a call has thrown during measurement, a later one is measuring, and one
\* container is attached
C28_Witness ==
    /\ error # NoError
    /\ nextSeq > 2
    /\ \E o \in inflight : Measuring(o)
    /\ tempContainers = 1


C31_BurstSendsOneCall ==
    [][((goToNext \/ goToPrev) /\ mountedRef /\ Ready) =>
          progressSink' = progressSink]_vars


\* the markup of the first element of a page's content: from its open tag to
\* the close tag of the same node
FirstBlock(html) ==
    IF html = <<>> \/ Head(html).k # "open" THEN html
    ELSE LET closes == {j \in 1..Len(html) :
                            /\ html[j].k = "close"
                            /\ html[j].tag = Head(html).tag
                            /\ html[j].id = Head(html).id}
             last   == CHOOSE j \in closes : \A k \in closes : j <= k
         IN  SubSeq(html, 1, last)

\* the ids of the blocks of chapter c, nested ones included
BlockIdsOfChapter(c) ==
    LET found == querySelectorAll(chapters[c].content, BlockTags)
    IN  {found[k].id : k \in 1..Len(found)}

\* C32: a page followed by another page of its chapter, taken together with
\* the first block of that next page, measures over pageHeight; and the
\* blocks on a page are all blocks of the page's chapter.
C32_GreedyPages ==
    ~isLoading =>
        /\ \A i \in 1..(Len(pages) - 1) :
              pages[i].chapterTitle = pages[i + 1].chapterTitle =>
                  scrollHeight(pages[i].content \o FirstBlock(pages[i + 1].content),
                               textSettings) > pageHeight
        /\ \A i \in 1..Len(pages) :
              LET opened == BlockOpenTags(pages[i].content)
                  ids    == BlockIdsOfChapter(ChapterOfPage(pages[i]))
              IN  \A k \in 1..Len(opened) : opened[k].id \in ids

\* a chapter of three paragraphs, of which two fit a page, has given two
\* pages, the first with two paragraphs
C32_Witness ==
    /\ ~isLoading
    /\ Len(chapters) = 1
    /\ Len(chapters[1].content) = 3
    /\ Len(pages) = 2
    /\ Len(BlockOpenTags(pages[1].content)) = 2
    /\ Len(BlockOpenTags(pages[2].content)) = 1


\* the text nodes of a markup
TextTokens(html) == SelectSeq(html, LAMBDA t : t.k = "text")

\* C33: every piece of text of every chapter is on some page: the pages hold
\* at least as many text nodes as the chapters do.
C33_NoContentLost ==
    ~isLoading =>
        Len(TextTokens(PagesMarkup))
            >= Len(TextTokens(Flatten([c \in 1..Len(chapters) |->
                                          innerHTML(chapters[c].content)])))


\* C34: in Ready with the double-page view on, the index is even.
C34_DoublePageAlignment ==
    (mountedRef /\ Ready /\ doublePageView /\ Len(pages) > 0) =>
        currentPageIndex % 2 = 0

\* the record of the library with this id
RecordOf(books, bookId) ==
    books[CHOOSE k \in 1..Len(books) : books[k].id = bookId]

\* C35: save/resume round trip.  When the reader is closed at index i of n
\* pages, the sink is called with page number i + 1 of n and the values of
\* the call are in the book's record of the library; a reader opened on a
\* record that holds the values of the last call, with a pagination of the
\* same n pages, starts at index i.
C35_SaveResumeRoundTrip ==
    /\ [][(Unmount /\ Len(pages) > 0) =>
             /\ progressSink' # None
             /\ progressSink'[1].currentPage = currentPageIndex + 1
             /\ progressSink'[1].totalPages = Len(pages)
             /\ RecordOf(library', book.id).currentPage = progressSink'[1].currentPage
             /\ RecordOf(library', book.id).progress = progressSink'[1].progress]_vars
    /\ [][(\E bookId \in BookIds : handleBookSelect(bookId)) =>
             book' = RecordOf(library, currentBookId')]_vars
    /\ [][(/\ mountedRef
           /\ isLoading
           /\ ~isLoading'
           /\ error' = NoError
           /\ progressSink # None
           /\ progressSink[1].bookId = book.id
           /\ book.currentPage = progressSink[1].currentPage
           /\ book.progress = progressSink[1].progress
           /\ Len(pages') = progressSink[1].totalPages) =>
             currentPageIndex' = progressSink[1].currentPage - 1]_vars

\* the plain book was closed at index 1 of 4 and is open again, at index 1
C35_Witness ==
    /\ mountedRef
    /\ Ready
    /\ nextSeq = 3
    /\ book.id = "plain"
    /\ book.currentPage = 2
    /\ book.progress = <<1, 4>>
    /\ Len(pages) = 4
    /\ currentPageIndex = 1
    /\ progressSink = Some(ProgressCall(book, 1, 4))

\* C36: Ready implies a page to show.  Whenever isLoading is false and error
\* is null, the page list is not empty and currentPageIndex is the index of
\* one of its pages; and every load that completes (its download has at
\* least one chapter) commits at least one page.
C36_ReadyHasPage ==
    /\ [](Ready => /\ Len(pages) > 0
                   /\ currentPageIndex \in 0..(Len(pages) - 1))
    /\ [][\A o \in inflight :
             (ParseResolved(o) /\ mountedRef) =>
                 /\ Len(ParsedDownload[o.book.fileName]["none"].chapters) >= 1
                 /\ Len(pages') >= 1
                 /\ ~isLoading']_vars

\* the nested book re-paginated at font size 24: page 2 of 3 is shown
C36_Witness ==
    /\ mountedRef
    /\ Ready
    /\ inflight = {}
    /\ nextSeq = 3
    /\ book.id = "nested"
    /\ textSettings.fontSize = 24
    /\ Len(pages) = 3
    /\ currentPageIndex = 1

\* C37: nothing happens after unmount.  Once the reader is unmounted, no
\* step changes the pages, the index, the error, the loading flag or the
\* metadata, whatever the outcome of the operations in flight; the sink is
\* not called and the library keeps its records; and no debounce timer is
\* pending, so no scheduled save fires.
C37_NothingAfterUnmount ==
    /\ [][~mountedRef =>
             UNCHANGED <<pages, currentPageIndex, error, isLoading, metadata,
                         progressSink, library, saveProgressTimeoutRef>>]_vars
    /\ [](~mountedRef => /\ saveProgressTimeoutRef = None
                         /\ ~ENABLED SaveProgressTimeout)

\* the reader was unmounted while loading, and its only operation has ended
C37_Witness ==
    /\ ~mountedRef
    /\ inflight = {}
    /\ nextSeq = 2
    /\ isLoading
    /\ error = NoError
    /\ pages = <<>>
    /\ progressSink = None

\* C38: disconnect() revokes the token.  A disconnect made while the service
\* holds an access token sends Drive a revoke request for that token, and
\* afterwards isAuthenticated() is false and localStorage holds no token, no
\* expiry and no books-folder id.
C38_DisconnectRevokes ==
    [][(handleDisconnectGoogleDrive /\ googleDriveService.accessToken # NULL) =>
          /\ googleDriveService.accessToken \in googleDrive'.revoked
          /\ ~(/\ googleDriveService'.accessToken # NULL
               /\ googleDriveService'.tokenExpiry # None
               /\ now' < googleDriveService'.tokenExpiry[1])
          /\ localStorage'[TOKEN_KEY] = None
          /\ localStorage'[EXPIRY_KEY] = None
          /\ localStorage'[FOLDER_KEY] = None]_vars

\* the stored record of the Drive file, or None
StoredRecord(storage, file) ==
    LET books == StoredBooks(storage)
        found == {k \in 1..Len(books) : books[k].googleDriveId = file}
    IN  IF found = {} THEN None ELSE Some(books[CHOOSE k \in found : TRUE])

\* C39: reading progress persists across library reloads.  When the page is
\* loaded again, Drive is connected or Refresh Library is pressed, every
\* book that has a stored record and whose file is in the books folder keeps
\* its local id, progress, currentPage and position token; a record made for
\* a file without a stored record starts at progress 0, page 1.
C39_ProgressPersists ==
    [][(\/ AppMount
        \/ handleRefreshLibrary
        \/ \E response \in OAuthResponses : handleConnectGoogleDrive(response)) =>
          \A file \in googleDrive.files :
             LET before == StoredRecord(localStorage, file)
                 after  == StoredRecord(localStorage', file)
             IN  /\ before # None =>
                       /\ after # None
                       /\ after[1].id = before[1].id
                       /\ after[1].progress = before[1].progress
                       /\ after[1].currentPage = before[1].currentPage
                       /\ after[1].currentCfi = before[1].currentCfi
                 /\ (before = None /\ after # None) =>
                       /\ after[1].progress[1] = 0
                       /\ after[1].currentPage = 1]_vars

====
